---- MODULE Spec2Model ----
(***************************************************************************)
(* Model of the optimization loop of intro-machine-learning-pytorch        *)
(* (6-optimization.ipynb: train_loop, test_loop, the epoch loop and        *)
(* torch.save) and of the reload in 7-inference.ipynb.                     *)
(*                                                                         *)
(* Numeric conventions.  Tensors are functions over 0..n-1 holding         *)
(* integers.  The network keeps the structure of the source (Flatten,      *)
(* three Linear stages each followed by ReLU) with its sizes scaled down   *)
(* (ImgSide, Hidden, NumClasses).  Quantities derived from the loss (the   *)
(* batch loss, test_loss, the gradients) are held as integer multiples of  *)
(* 1/LossScale so that the mean over a batch is exact.  Quotients computed *)
(* by "/=" are held as fractions [num, den].  Parameter values saturate at *)
(* +-MaxParam.  A gradient buffer that is None is held as the zero tensor. *)
(***************************************************************************)
EXTENDS Integers, Sequences, FiniteSets, TLC

\* ---------------------------------------------------------------- bounds
ImgSide == 1
Hidden == 1
NumClasses == 2
MaxPixel == 1
MaxTrain == 2
MaxTest == 3
MaxBatch == 2
MaxEpochs == 2
MaxParam == 3
MaxCalls == 3
LongTrain == 201

\* ------------------------------------------------------ tensor helpers
Idx(n) == 0..(n - 1)

RECURSIVE SumTo(_, _)
SumTo(f, n) == IF n = 0 THEN 0 ELSE f[n - 1] + SumTo(f, n - 1)

RECURSIVE SumSeq(_)
SumSeq(s) == IF s = <<>> THEN 0 ELSE Head(s) + SumSeq(Tail(s))

RECURSIVE Factorial(_)
Factorial(n) == IF n <= 1 THEN 1 ELSE n * Factorial(n - 1)

Min(a, b) == IF a <= b THEN a ELSE b

Clamp(v) == IF v > MaxParam THEN MaxParam ELSE IF v < -MaxParam THEN -MaxParam ELSE v

\* fractions produced by Python's true division
Frac(n, d) == [num |-> n, den |-> d]
FracDiv(q, n) == [num |-> q.num, den |-> q.den * n]
FracEq(p, q) == p.num * q.den = q.num * p.den

\* ------------------------------------------------------ NeuralNetwork
InFeatures == ImgSide * ImgSide

LinearIdx == {0, 2, 4}

in_features(i) == IF i = 0 THEN InFeatures ELSE Hidden

out_features(i) == IF i = 4 THEN NumClasses ELSE Hidden

\* the nn.Linear stages of NeuralNetwork.linear_relu_stack as each notebook
\* writes them, keyed by their position in the nn.Sequential
Stack4Model ==
    [i \in LinearIdx |->
        IF i = 0 THEN [in_features |-> 28 * 28, out_features |-> 512]
        ELSE IF i = 2 THEN [in_features |-> 512, out_features |-> 512]
        ELSE [in_features |-> 512, out_features |-> 10]]

\* variant: a second stage that is narrower than the third stage expects
Stack6Optimization_Narrow ==
    [i \in LinearIdx |->
        IF i = 0 THEN [in_features |-> 28 * 28, out_features |-> 512]
        ELSE IF i = 2 THEN [in_features |-> 512, out_features |-> 256]
        ELSE [in_features |-> 512, out_features |-> 10]]

Stack6Optimization ==
    [i \in LinearIdx |->
        IF i = 0 THEN [in_features |-> 28 * 28, out_features |-> 512]
        ELSE IF i = 2 THEN [in_features |-> 512, out_features |-> 512]
        ELSE [in_features |-> 512, out_features |-> 10]]

Stack7Inference ==
    [i \in LinearIdx |->
        IF i = 0 THEN [in_features |-> 28 * 28, out_features |-> 512]
        ELSE IF i = 2 THEN [in_features |-> 512, out_features |-> 512]
        ELSE [in_features |-> 512, out_features |-> 10]]

\* shape of one sample: torch.zeros((1,28,28)), one channel of 28 x 28 pixels
SampleShape == <<1, 28, 28>>

\* variant: a list that lacks the last class name
classes_Nine ==
    <<"T-shirt/top", "Trouser", "Pullover", "Dress", "Coat", "Sandal", "Shirt",
      "Sneaker", "Bag">>

\* the class names of the inference notebook
classes ==
    <<"T-shirt/top", "Trouser", "Pullover", "Dress", "Coat", "Sandal", "Shirt",
      "Sneaker", "Bag", "Ankle boot">>

\* one freshly constructed network; a, b stand for the random initialisation
NeuralNetwork(a, b) ==
    [i \in LinearIdx |->
        [weight |-> [o \in Idx(out_features(i)) |-> [j \in Idx(in_features(i)) |->
                        IF i = 0 THEN 1
                        ELSE IF i = 2 THEN a
                        ELSE IF o % 2 = 0 THEN 1 ELSE -1]],
         bias   |-> [o \in Idx(out_features(i)) |->
                        IF i = 0 THEN 0
                        ELSE IF i = 2 THEN b
                        ELSE IF o % 2 = 0 THEN 0 ELSE 2]]]

FreshModels == {NeuralNetwork(a, b) : a \in {-1, 1}, b \in {0, 1}}

ZeroGradBuffers ==
    [i \in LinearIdx |->
        [weight |-> [o \in Idx(out_features(i)) |-> [j \in Idx(in_features(i)) |-> 0]],
         bias   |-> [o \in Idx(out_features(i)) |-> 0]]]

\* nn.Flatten: an ImgSide x ImgSide image becomes a vector of InFeatures values
Flatten(img) == [j \in Idx(InFeatures) |-> img[j \div ImgSide][j % ImgSide]]

\* nn.Linear: weight . x + bias
Linear(l, x) ==
    [o \in DOMAIN l.bias |->
        SumTo([j \in DOMAIN x |-> l.weight[o][j] * x[j]], Cardinality(DOMAIN x)) + l.bias[o]]

ReLU(v) == [o \in DOMAIN v |-> IF v[o] > 0 THEN v[o] ELSE 0]

\* NeuralNetwork.forward for one sample
forward(m, img) ==
    ReLU(Linear(m[4], ReLU(Linear(m[2], ReLU(Linear(m[0], Flatten(img)))))))

\* model(X) for a batch X (a sequence of images)
ModelCall(m, X) == [n \in 1..Len(X) |-> forward(m, X[n])]

\* tensor.argmax: index of the first maximal value
argmax(v) ==
    CHOOSE c \in DOMAIN v :
        /\ \A d \in DOMAIN v : v[d] <= v[c]
        /\ \A d \in DOMAIN v : d < c => v[d] < v[c]

MaxOf(v) == v[argmax(v)]

\* ------------------------------------------------------ loss function
LossScale == Factorial(MaxBatch)

\* loss of one sample: integer surrogate of cross entropy,
\* logsumexp(logits) - logits[y] with the soft maximum taken as the maximum
SampleLoss(logits, label) == MaxOf(logits) - logits[label]

\* nn.CrossEntropyLoss() (reduction = mean over the batch), in 1/LossScale
CrossEntropyLoss(pred, y) ==
    SumSeq([n \in 1..Len(pred) |-> SampleLoss(pred[n], y[n])]) * (LossScale \div Len(pred))

\* ------------------------------------------------------ autograd and SGD
\* gradient of one sample's loss with respect to every parameter
SampleGrad(m, img, label) ==
    LET a0 == Flatten(img)
        z1 == Linear(m[0], a0)
        a1 == ReLU(z1)
        z2 == Linear(m[2], a1)
        a2 == ReLU(z2)
        z3 == Linear(m[4], a2)
        a3 == ReLU(z3)
        dout == [c \in DOMAIN a3 |->
                    (IF c = argmax(a3) THEN 1 ELSE 0) - (IF c = label THEN 1 ELSE 0)]
        d3 == [c \in DOMAIN z3 |-> IF z3[c] > 0 THEN dout[c] ELSE 0]
        da2 == [j \in DOMAIN a2 |->
                    SumTo([o \in DOMAIN d3 |-> m[4].weight[o][j] * d3[o]], Cardinality(DOMAIN d3))]
        d2 == [o \in DOMAIN z2 |-> IF z2[o] > 0 THEN da2[o] ELSE 0]
        da1 == [j \in DOMAIN a1 |->
                    SumTo([o \in DOMAIN d2 |-> m[2].weight[o][j] * d2[o]], Cardinality(DOMAIN d2))]
        d1 == [o \in DOMAIN z1 |-> IF z1[o] > 0 THEN da1[o] ELSE 0]
        delta == [i \in LinearIdx |-> IF i = 0 THEN d1 ELSE IF i = 2 THEN d2 ELSE d3]
        inp == [i \in LinearIdx |-> IF i = 0 THEN a0 ELSE IF i = 2 THEN a1 ELSE a2]
    IN  [i \in LinearIdx |->
            [weight |-> [o \in DOMAIN delta[i] |-> [j \in DOMAIN inp[i] |-> delta[i][o] * inp[i][j]]],
             bias   |-> delta[i]]]

\* gradient of the batch loss (mean reduction), in 1/LossScale
BatchGrad(m, X, y) ==
    LET g == [n \in 1..Len(X) |-> SampleGrad(m, X[n], y[n])]
        w == LossScale \div Len(X)
    IN  [i \in LinearIdx |->
            [weight |-> [o \in Idx(out_features(i)) |-> [j \in Idx(in_features(i)) |->
                            w * SumSeq([n \in 1..Len(X) |-> g[n][i].weight[o][j]])]],
             bias   |-> [o \in Idx(out_features(i)) |->
                            w * SumSeq([n \in 1..Len(X) |-> g[n][i].bias[o]])]]]

\* loss.backward(): gradients add up in the buffers
Accumulate(buf, g) ==
    [i \in LinearIdx |->
        [weight |-> [o \in Idx(out_features(i)) |-> [j \in Idx(in_features(i)) |->
                        buf[i].weight[o][j] + g[i].weight[o][j]]],
         bias   |-> [o \in Idx(out_features(i)) |-> buf[i].bias[o] + g[i].bias[o]]]]

\* lr = learning_rate; one parameter unit per 1/LossScale of gradient
lr == 1

\* torch.optim.SGD.step: p <- p - lr * p.grad for every parameter
SGDStep(m, buf) ==
    [i \in LinearIdx |->
        [weight |-> [o \in Idx(out_features(i)) |-> [j \in Idx(in_features(i)) |->
                        Clamp(m[i].weight[o][j] - lr * buf[i].weight[o][j])]],
         bias   |-> [o \in Idx(out_features(i)) |-> Clamp(m[i].bias[o] - lr * buf[i].bias[o])]]]

\* ------------------------------------------------------ state_dict
ParamNames == {"weight", "bias"}

StateDictKeys == {<<"linear_relu_stack", i, n>> : i \in LinearIdx, n \in ParamNames}

\* variant: a training notebook that names the stack attribute differently
state_dict_Renamed(m) ==
    [k \in {<<"layers", i, n>> : i \in LinearIdx, n \in ParamNames} |-> m[k[2]][k[3]]]

\* model.state_dict(): parameter values keyed by module path
state_dict(m) == [k \in StateDictKeys |-> m[k[2]][k[3]]]

\* variant: a load that restores the weights and leaves the biases as constructed
load_state_dict_WeightsOnly(m, sd) ==
    [i \in DOMAIN m |->
        [weight |-> sd[<<"linear_relu_stack", i, "weight">>],
         bias   |-> m[i].bias]]

\* model.load_state_dict(sd): every parameter of m is overwritten by sd's entry
load_state_dict(m, sd) ==
    [i \in DOMAIN m |->
        [weight |-> sd[<<"linear_relu_stack", i, "weight">>],
         bias   |-> sd[<<"linear_relu_stack", i, "bias">>]]]

\* the keys a module instance expects in a state dict
ExpectedKeys(m) == {<<"linear_relu_stack", i, n>> : i \in DOMAIN m, n \in ParamNames}

MissingKeys(m, sd) == ExpectedKeys(m) \ DOMAIN sd

UnexpectedKeys(m, sd) == DOMAIN sd \ ExpectedKeys(m)

\* shape of a parameter tensor: (out, in) for a weight, (out) for a bias
ParamShape(p, name) ==
    IF name = "weight"
    THEN <<Cardinality(DOMAIN p), Cardinality(DOMAIN p[0])>>
    ELSE <<Cardinality(DOMAIN p)>>

\* load_state_dict is strict: it raises on a missing key, an unexpected key or
\* a parameter of another shape
LoadAccepts(m, sd) ==
    /\ MissingKeys(m, sd) = {}
    /\ UnexpectedKeys(m, sd) = {}
    /\ \A k \in ExpectedKeys(m) : ParamShape(sd[k], k[3]) = ParamShape(m[k[2]][k[3]], k[3])

\* ------------------------------------------------------ DataLoader
\* variant: a loader that drops an incomplete last batch (drop_last)
HasBatch_DropLast(data, bs, k) == (k + 1) * bs <= Len(data)

\* DataLoader(dataset, batch_size): batch k is the k-th slice of the dataset
HasBatch(data, bs, k) == k * bs < Len(data)

\* variant: a window that slides by one sample instead of by one batch
BatchOf_Sliding(data, bs, k) == SubSeq(data, k + 1, Min(k + bs, Len(data)))

BatchOf(data, bs, k) == SubSeq(data, k * bs + 1, Min((k + 1) * bs, Len(data)))

Inputs(b) == [n \in 1..Len(b) |-> b[n].x]

Labels(b) == [n \in 1..Len(b) |-> b[n].y]

\* the images and samples a split can hold
\* one labelled image per pixel intensity: the image is uniformly v and its
\* label is class 0 for an even v and the last class for an odd v
Image(v) == [r \in Idx(ImgSide) |-> [c \in Idx(ImgSide) |-> v]]

Sample(v) == [x |-> Image(v), y |-> IF v % 2 = 0 THEN 0 ELSE NumClasses - 1]

Samples == {Sample(v) : v \in 0..MaxPixel}

\* a split of n samples: the intensities cycle through 0..MaxPixel from `first`
Split(first, n) == [k \in 1..n |-> Sample((first + k - 1) % (MaxPixel + 1))]

Splits(maxlen) == {Split(first, n) : first \in 0..MaxPixel, n \in 0..maxlen}

FracAdd(p, q) ==
    IF p.den = q.den THEN Frac(p.num + q.num, p.den)
    ELSE Frac(p.num * q.den + q.num * p.den, p.den * q.den)

\* ------------------------------------------------------ hyperparameters
\* the hyperparameter cell: learning_rate = 1e-3, batch_size = 64, epochs = 5
learning_rate == Frac(1, 1000)

HyperBatchSize == 64

HyperEpochs == 5

\* DataLoader(training_data, batch_size=64), DataLoader(test_data, batch_size=64)
LoaderBatchSize == 64

\* epochs = 10 in the cell that runs the loop
TopLevelEpochs == 10

\* an epoch count of the notebook at the scale of the model: the count of the
\* cell that runs the loop becomes MaxEpochs
ScaledEpochs(e) == (e * MaxEpochs) \div TopLevelEpochs

\* ------------------------------------------------------ state
VARIABLES
    training_data, test_data,   \* the two splits: sequences of [x, y]
    batch_size,                 \* batch_size of both DataLoaders
    epochs,                     \* epochs of the top-level loop
    model,                      \* parameters of the model instance
    grad,                       \* .grad buffer of every parameter
    grad_enabled,               \* FALSE inside "with torch.no_grad()"
    pc,                         \* position of the running cell
    caller,                     \* who calls train_loop / test_loop
    calls,                      \* calls made by the harness
    t,                          \* epoch index of the top-level loop
    size, it, batch, X, y, pred, loss, test_loss, correct,   \* locals
    stdout,                     \* printed lines
    file,                       \* data/model.pth: <<>> or <<state dict>>
    model2,                     \* model of the inference notebook: <<>> or <<m>>
    training,                   \* model.training of the inference notebook's model
    onnx_model,                 \* data/model.onnx: <<>> or <<exported graph>>
    sample,                     \* x, y of the inference notebook: <<>> or <<[x, y]>>
    session,                    \* the InferenceSession: <<>> or <<graph it runs>>
    result,                     \* result[0][0] of session.run: <<>> or <<logits>>
    log,                        \* history: the steps executed so far
    passSizes,                  \* history: len(X) of every batch of the current pass
    lastEval, prevEval,         \* history: results of the last two test_loop calls
    model0                      \* history: the parameters the constructor drew

data == <<training_data, test_data, batch_size, epochs, model0>>
net == <<model, grad>>
locals == <<size, it, batch, X, y, pred, loss, test_loss, correct>>
inference == <<model2, training, onnx_model, sample, session, result>>
artifacts == <<file, inference>>
evals == <<lastEval, prevEval>>
vars == <<data, net, grad_enabled, pc, caller, calls, t, locals, stdout, artifacts,
          log, passSizes, evals>>

Event(op, k) == [op |-> op, k |-> k]

Line(kind, a, b, c) == [kind |-> kind, a |-> a, b |-> b, c |-> c]

InitCommon ==
    /\ training_data \in Splits(MaxTrain)
    /\ test_data \in Splits(MaxTest)
    /\ batch_size \in 1..MaxBatch
    /\ epochs = ScaledEpochs(HyperEpochs)
    /\ model \in FreshModels
    /\ model0 = model
    /\ grad = ZeroGradBuffers
    /\ grad_enabled = TRUE
    /\ calls = 0
    /\ t = 0
    /\ size = 0 /\ it = 0 /\ batch = 0
    /\ X = <<>> /\ y = <<>> /\ pred = <<>> /\ loss = 0
    /\ test_loss = Frac(0, 1) /\ correct = Frac(0, 1)
    /\ stdout = <<>>
    /\ file = <<>> /\ model2 = <<>>
    /\ training = TRUE
    /\ onnx_model = <<>> /\ sample = <<>> /\ session = <<>> /\ result = <<>>
    /\ log = <<>> /\ passSizes = <<>>
    /\ lastEval = <<>> /\ prevEval = <<>>

\* the notebook run top to bottom
Init == InitCommon /\ caller = "epoch_loop" /\ pc = "top_cell"

\* train_loop and test_loop called in any order
InitCalls == InitCommon /\ caller = "harness" /\ pc = "idle"

\* ------------------------------------------------------ train_loop
TrainEnter ==
    /\ pc = "train_enter"
    /\ size' = Len(training_data)
    /\ it' = 0 /\ batch' = 0
    /\ log' = Append(log, Event("train_begin", t))
    /\ passSizes' = <<>>
    /\ lastEval' = <<>>
    /\ pc' = "train_iter"
    /\ UNCHANGED <<data, net, grad_enabled, caller, calls, t, X, y, pred, loss,
                   test_loss, correct, stdout, artifacts, prevEval>>

\* variant: an iteration that removes the fetched samples from the split
TrainFetch_Consume ==
    /\ pc = "train_iter"
    /\ HasBatch(training_data, batch_size, 0)
    /\ batch' = it
    /\ X' = Inputs(BatchOf(training_data, batch_size, 0))
    /\ y' = Labels(BatchOf(training_data, batch_size, 0))
    /\ training_data' = SubSeq(training_data, Len(X') + 1, Len(training_data))
    /\ it' = it + 1
    /\ passSizes' = Append(passSizes, Len(X'))
    /\ pc' = "train_forward"
    /\ UNCHANGED <<test_data, batch_size, epochs, model0, net, grad_enabled, caller, calls,
                   t, size, pred, loss, test_loss, correct, stdout, artifacts, log, evals>>

Reverse(d) == [n \in 1..Len(d) |-> d[Len(d) + 1 - n]]

\* variant: a loader that may hand out the samples in another order (shuffle)
TrainFetch_Shuffle ==
    /\ pc = "train_iter"
    /\ HasBatch(training_data, batch_size, it)
    /\ batch' = it
    /\ \E d \in {training_data, Reverse(training_data)} :
          /\ X' = Inputs(BatchOf(d, batch_size, it))
          /\ y' = Labels(BatchOf(d, batch_size, it))
    /\ it' = it + 1
    /\ passSizes' = Append(passSizes, Len(X'))
    /\ pc' = "train_forward"
    /\ UNCHANGED <<data, net, grad_enabled, caller, calls, t, size, pred, loss,
                   test_loss, correct, stdout, artifacts, log, evals>>

TrainFetch ==
    /\ pc = "train_iter"
    /\ HasBatch(training_data, batch_size, it)
    /\ batch' = it
    /\ X' = Inputs(BatchOf(training_data, batch_size, it))
    /\ y' = Labels(BatchOf(training_data, batch_size, it))
    /\ it' = it + 1
    /\ passSizes' = Append(passSizes, Len(X'))
    /\ pc' = "train_forward"
    /\ UNCHANGED <<data, net, grad_enabled, caller, calls, t, size, pred, loss,
                   test_loss, correct, stdout, artifacts, log, evals>>

TrainReturn ==
    /\ pc = "train_iter"
    /\ ~HasBatch(training_data, batch_size, it)
    /\ log' = Append(log, Event("train_end", t))
    /\ pc' = IF caller = "epoch_loop" THEN "test_enter" ELSE "idle"
    /\ UNCHANGED <<data, net, grad_enabled, caller, calls, t, locals, stdout, artifacts,
                   passSizes, evals>>

TrainForward ==
    /\ pc = "train_forward"
    /\ pred' = ModelCall(model, X)
    /\ log' = Append(log, Event("forward", batch))
    /\ pc' = "train_loss"
    /\ UNCHANGED <<data, net, grad_enabled, caller, calls, t, size, it, batch, X, y, loss,
                   test_loss, correct, stdout, artifacts, passSizes, evals>>

\* variant: a loop body that goes from the loss straight to backward()
TrainLoss_NoZeroGrad ==
    /\ pc = "train_loss"
    /\ loss' = CrossEntropyLoss(pred, y)
    /\ log' = Append(log, Event("loss", batch))
    /\ pc' = "train_backward"
    /\ UNCHANGED <<data, net, grad_enabled, caller, calls, t, size, it, batch, X, y, pred,
                   test_loss, correct, stdout, artifacts, passSizes, evals>>

TrainLoss ==
    /\ pc = "train_loss"
    /\ loss' = CrossEntropyLoss(pred, y)
    /\ log' = Append(log, Event("loss", batch))
    /\ pc' = "train_zero_grad"
    /\ UNCHANGED <<data, net, grad_enabled, caller, calls, t, size, it, batch, X, y, pred,
                   test_loss, correct, stdout, artifacts, passSizes, evals>>

\* variant: a zero_grad() that leaves the buffers as they are
TrainZeroGrad_Keep ==
    /\ pc = "train_zero_grad"
    /\ log' = Append(log, Event("zero_grad", batch))
    /\ pc' = "train_backward"
    /\ UNCHANGED <<data, net, grad_enabled, caller, calls, t, locals, stdout, artifacts,
                   passSizes, evals>>

TrainZeroGrad ==
    /\ pc = "train_zero_grad"
    /\ grad' = ZeroGradBuffers
    /\ log' = Append(log, Event("zero_grad", batch))
    /\ pc' = "train_backward"
    /\ UNCHANGED <<data, model, grad_enabled, caller, calls, t, locals, stdout, artifacts,
                   passSizes, evals>>

TrainBackward ==
    /\ pc = "train_backward"
    /\ grad_enabled
    /\ grad' = Accumulate(grad, BatchGrad(model, X, y))
    /\ log' = Append(log, Event("backward", batch))
    /\ pc' = "train_step"
    /\ UNCHANGED <<data, model, grad_enabled, caller, calls, t, locals, stdout, artifacts,
                   passSizes, evals>>

\* variant: an optimizer step on every other batch only
TrainStep_EveryOther ==
    /\ pc = "train_step"
    /\ IF batch % 2 = 0
       THEN model' = SGDStep(model, grad) /\ log' = Append(log, Event("step", batch))
       ELSE UNCHANGED <<model, log>>
    /\ pc' = "train_report"
    /\ UNCHANGED <<data, grad, grad_enabled, caller, calls, t, locals, stdout, artifacts,
                   passSizes, evals>>

TrainStep ==
    /\ pc = "train_step"
    /\ model' = SGDStep(model, grad)
    /\ log' = Append(log, Event("step", batch))
    /\ pc' = "train_report"
    /\ UNCHANGED <<data, grad, grad_enabled, caller, calls, t, locals, stdout, artifacts,
                   passSizes, evals>>

ReportEvery == 100

\* variant: a report that evaluates the loss again, on the updated model
TrainReport_Recompute ==
    /\ pc = "train_report"
    /\ IF batch % ReportEvery = 0
       THEN /\ stdout' = Append(stdout, Line("loss", CrossEntropyLoss(ModelCall(model, X), y),
                                             batch * Len(X), size))
            /\ log' = Append(log, Event("report", batch))
       ELSE UNCHANGED <<stdout, log>>
    /\ pc' = "train_iter"
    /\ UNCHANGED <<data, net, grad_enabled, caller, calls, t, locals, artifacts,
                   passSizes, evals>>

\* variant: a report after every 100th batch counted from one
TrainReport_OneBased ==
    /\ pc = "train_report"
    /\ IF (batch + 1) % ReportEvery = 0
       THEN /\ stdout' = Append(stdout, Line("loss", loss, batch * Len(X), size))
            /\ log' = Append(log, Event("report", batch))
       ELSE UNCHANGED <<stdout, log>>
    /\ pc' = "train_iter"
    /\ UNCHANGED <<data, net, grad_enabled, caller, calls, t, locals, artifacts,
                   passSizes, evals>>

TrainReport ==
    /\ pc = "train_report"
    /\ IF batch % ReportEvery = 0
       THEN /\ stdout' = Append(stdout, Line("loss", loss, batch * Len(X), size))
            /\ log' = Append(log, Event("report", batch))
       ELSE UNCHANGED <<stdout, log>>
    /\ pc' = "train_iter"
    /\ UNCHANGED <<data, net, grad_enabled, caller, calls, t, locals, artifacts,
                   passSizes, evals>>

\* ------------------------------------------------------ test_loop
\* number of samples of the batch whose predicted class is the label:
\* (pred.argmax(1) == y).type(torch.float).sum().item()
CorrectCount(p, lab) == Cardinality({n \in 1..Len(p) : argmax(p[n]) = lab[n]})

\* variant: accumulators that are not reset at the start of a call
TestEnter_NoReset ==
    /\ pc = "test_enter"
    /\ size' = Len(test_data)
    /\ grad_enabled' = FALSE
    /\ it' = 0
    /\ log' = Append(log, Event("test_begin", t))
    /\ passSizes' = <<>>
    /\ pc' = "test_iter"
    /\ UNCHANGED <<data, net, caller, calls, t, batch, X, y, pred, loss, test_loss, correct,
                   stdout, artifacts, evals>>

TestEnter ==
    /\ pc = "test_enter"
    /\ size' = Len(test_data)
    /\ test_loss' = Frac(0, 1)
    /\ correct' = Frac(0, 1)
    /\ grad_enabled' = FALSE
    /\ it' = 0
    /\ log' = Append(log, Event("test_begin", t))
    /\ passSizes' = <<>>
    /\ pc' = "test_iter"
    /\ UNCHANGED <<data, net, caller, calls, t, batch, X, y, pred, loss, stdout,
                   artifacts, evals>>

TestFetch ==
    /\ pc = "test_iter"
    /\ HasBatch(test_data, batch_size, it)
    /\ X' = Inputs(BatchOf(test_data, batch_size, it))
    /\ y' = Labels(BatchOf(test_data, batch_size, it))
    /\ it' = it + 1
    /\ passSizes' = Append(passSizes, Len(X'))
    /\ pc' = "test_forward"
    /\ UNCHANGED <<data, net, grad_enabled, caller, calls, t, size, batch, pred, loss,
                   test_loss, correct, stdout, artifacts, log, evals>>

\* variant: gradient tracking switched off for good instead of for a scope
TestExhausted_StaysOff ==
    /\ pc = "test_iter"
    /\ ~HasBatch(test_data, batch_size, it)
    /\ pc' = "test_normalise"
    /\ UNCHANGED <<data, net, grad_enabled, caller, calls, t, locals, stdout, artifacts, log,
                   passSizes, evals>>

TestExhausted ==
    /\ pc = "test_iter"
    /\ ~HasBatch(test_data, batch_size, it)
    /\ grad_enabled' = TRUE
    /\ pc' = "test_normalise"
    /\ UNCHANGED <<data, net, caller, calls, t, locals, stdout, artifacts, log,
                   passSizes, evals>>

TestForward ==
    /\ pc = "test_forward"
    /\ pred' = ModelCall(model, X)
    /\ log' = Append(log, Event("test_forward", it - 1))
    /\ pc' = "test_loss"
    /\ UNCHANGED <<data, net, grad_enabled, caller, calls, t, size, it, batch, X, y, loss,
                   test_loss, correct, stdout, artifacts, passSizes, evals>>

\* variant: an evaluation step that also back-propagates its loss
TestLoss_Backward ==
    /\ pc = "test_loss"
    /\ test_loss' = FracAdd(test_loss, Frac(CrossEntropyLoss(pred, y), LossScale))
    /\ grad' = Accumulate(grad, BatchGrad(model, X, y))
    /\ pc' = "test_correct"
    /\ UNCHANGED <<data, model, grad_enabled, caller, calls, t, size, it, batch, X, y, pred,
                   loss, correct, stdout, artifacts, log, passSizes, evals>>

\* variant: the batch loss is subtracted from the accumulator
TestLoss_Subtract ==
    /\ pc = "test_loss"
    /\ test_loss' = FracAdd(test_loss, Frac(-CrossEntropyLoss(pred, y), LossScale))
    /\ pc' = "test_correct"
    /\ UNCHANGED <<data, net, grad_enabled, caller, calls, t, size, it, batch, X, y, pred,
                   loss, correct, stdout, artifacts, log, passSizes, evals>>

TestLoss ==
    /\ pc = "test_loss"
    /\ test_loss' = FracAdd(test_loss, Frac(CrossEntropyLoss(pred, y), LossScale))
    /\ pc' = "test_correct"
    /\ UNCHANGED <<data, net, grad_enabled, caller, calls, t, size, it, batch, X, y, pred,
                   loss, correct, stdout, artifacts, log, passSizes, evals>>

\* variant: "correct = ..." in place of "correct += ..."
TestCorrect_Overwrite ==
    /\ pc = "test_correct"
    /\ correct' = Frac(CorrectCount(pred, y), 1)
    /\ pc' = "test_iter"
    /\ UNCHANGED <<data, net, grad_enabled, caller, calls, t, size, it, batch, X, y, pred,
                   loss, test_loss, stdout, artifacts, log, passSizes, evals>>

TestCorrect ==
    /\ pc = "test_correct"
    /\ correct' = FracAdd(correct, Frac(CorrectCount(pred, y), 1))
    /\ pc' = "test_iter"
    /\ UNCHANGED <<data, net, grad_enabled, caller, calls, t, size, it, batch, X, y, pred,
                   loss, test_loss, stdout, artifacts, log, passSizes, evals>>

\* variant: both accumulators divided by the number of batches, len(dataloader)
TestNormalise_ByBatches ==
    /\ pc = "test_normalise"
    /\ size # 0
    /\ test_loss' = FracDiv(test_loss, Len(passSizes))
    /\ correct' = FracDiv(correct, Len(passSizes))
    /\ pc' = "test_print"
    /\ UNCHANGED <<data, net, grad_enabled, caller, calls, t, size, it, batch, X, y, pred,
                   loss, stdout, artifacts, log, passSizes, evals>>

TestNormalise ==
    /\ pc = "test_normalise"
    /\ size # 0
    /\ test_loss' = FracDiv(test_loss, size)
    /\ correct' = FracDiv(correct, size)
    /\ pc' = "test_print"
    /\ UNCHANGED <<data, net, grad_enabled, caller, calls, t, size, it, batch, X, y, pred,
                   loss, stdout, artifacts, log, passSizes, evals>>

\* variant: a test_loop that guards the division and reports zeros
TestDivideByZero_ReportsZero ==
    /\ pc = "test_normalise"
    /\ size = 0
    /\ test_loss' = Frac(0, 1)
    /\ correct' = Frac(0, 1)
    /\ pc' = "test_print"
    /\ UNCHANGED <<data, net, grad_enabled, caller, calls, t, size, it, batch, X, y, pred,
                   loss, stdout, artifacts, log, passSizes, evals>>

\* variant: the driver swallows the exception and goes on with the next epoch
TestDivideByZero_Caught ==
    /\ pc = "test_normalise"
    /\ size = 0
    /\ pc' = "epoch_loop"
    /\ t' = t + 1
    /\ UNCHANGED <<data, net, grad_enabled, caller, calls, locals, stdout, artifacts,
                   log, passSizes, evals>>

\* ZeroDivisionError of "test_loss /= size"; nothing catches it
TestDivideByZero ==
    /\ pc = "test_normalise"
    /\ size = 0
    /\ pc' = "error"
    /\ UNCHANGED <<data, net, grad_enabled, caller, calls, t, locals, stdout, artifacts,
                   log, passSizes, evals>>

TestPrint ==
    /\ pc = "test_print"
    /\ stdout' = Append(stdout, Line("test", Frac(100 * correct.num, correct.den), test_loss, 0))
    /\ log' = Append(log, Event("test_end", t))
    /\ prevEval' = lastEval
    /\ lastEval' = <<[accuracy |-> correct, avg_loss |-> test_loss, params |-> model]>>
    /\ IF caller = "epoch_loop"
       THEN pc' = "epoch_loop" /\ t' = t + 1
       ELSE pc' = "idle" /\ t' = t
    /\ UNCHANGED <<data, net, grad_enabled, caller, calls, locals, artifacts, passSizes>>

\* ------------------------------------------------------ top-level cells
\* epochs = 10: the cell that runs the loop sets epochs again
EpochsAssign ==
    /\ pc = "top_cell"
    /\ epochs' = ScaledEpochs(TopLevelEpochs)
    /\ pc' = "epoch_loop"
    /\ UNCHANGED <<training_data, test_data, batch_size, model0, net, grad_enabled, caller,
                   calls, t, locals, stdout, artifacts, log, passSizes, evals>>

\* variant: range(epochs + 1)
EpochNext_OneMore ==
    /\ pc = "epoch_loop"
    /\ t <= epochs
    /\ stdout' = Append(stdout, Line("epoch", t + 1, 0, 0))
    /\ pc' = "train_enter"
    /\ UNCHANGED <<data, net, grad_enabled, caller, calls, t, locals, artifacts, log,
                   passSizes, evals>>

EpochNext ==
    /\ pc = "epoch_loop"
    /\ t < epochs
    /\ stdout' = Append(stdout, Line("epoch", t + 1, 0, 0))
    /\ pc' = "train_enter"
    /\ UNCHANGED <<data, net, grad_enabled, caller, calls, t, locals, artifacts, log,
                   passSizes, evals>>

\* variant: a notebook without the final print
EpochsDone_Silent ==
    /\ pc = "epoch_loop"
    /\ t >= epochs
    /\ log' = Append(log, Event("done", t))
    /\ pc' = "save"
    /\ UNCHANGED <<data, net, grad_enabled, caller, calls, t, locals, stdout, artifacts,
                   passSizes, evals>>

EpochsDone ==
    /\ pc = "epoch_loop"
    /\ t >= epochs
    /\ stdout' = Append(stdout, Line("done", 0, 0, 0))
    /\ log' = Append(log, Event("done", t))
    /\ pc' = "save"
    /\ UNCHANGED <<data, net, grad_enabled, caller, calls, t, locals, artifacts,
                   passSizes, evals>>

\* variant: the file written before the epochs instead of after
Save_Early ==
    /\ pc = "epoch_loop"
    /\ t = 0
    /\ file = <<>>
    /\ file' = <<state_dict(model)>>
    /\ stdout' = Append(stdout, Line("saved", 0, 0, 0))
    /\ log' = Append(log, Event("save", t))
    /\ pc' = "epoch_loop"
    /\ UNCHANGED <<data, net, grad_enabled, caller, calls, t, locals, inference,
                   passSizes, evals>>

\* torch.save(model.state_dict(), "data/model.pth")
Save ==
    /\ pc = "save"
    /\ file' = <<state_dict(model)>>
    /\ stdout' = Append(stdout, Line("saved", 0, 0, 0))
    /\ log' = Append(log, Event("save", t))
    /\ pc' = "inference"
    /\ UNCHANGED <<data, net, grad_enabled, caller, calls, t, locals, inference,
                   passSizes, evals>>

\* variant: a notebook that goes from the constructor straight to model.eval()
InferenceConstruct_SkipLoad ==
    /\ pc = "inference"
    /\ \E m \in FreshModels : model2' = <<m>>
    /\ training' = TRUE
    /\ log' = Append(log, Event("construct", 0))
    /\ pc' = "inference_eval"
    /\ UNCHANGED <<data, net, grad_enabled, caller, calls, t, locals, stdout, file,
                   onnx_model, sample, session, result, passSizes, evals>>

\* 7-inference.ipynb: model = NeuralNetwork(); a new module is in training mode
InferenceConstruct ==
    /\ pc = "inference"
    /\ \E m \in FreshModels : model2' = <<m>>
    /\ training' = TRUE
    /\ log' = Append(log, Event("construct", 0))
    /\ pc' = "inference_load"
    /\ UNCHANGED <<data, net, grad_enabled, caller, calls, t, locals, stdout, file,
                   onnx_model, sample, session, result, passSizes, evals>>

\* model.load_state_dict(torch.load('data/model.pth'))
InferenceLoad ==
    /\ pc = "inference_load"
    /\ file # <<>>
    /\ LoadAccepts(model2[1], file[1])
    /\ model2' = <<load_state_dict(model2[1], file[1])>>
    /\ log' = Append(log, Event("load", 0))
    /\ pc' = "inference_eval"
    /\ UNCHANGED <<data, net, grad_enabled, caller, calls, t, locals, stdout, file,
                   training, onnx_model, sample, session, result, passSizes, evals>>

\* model.eval()
InferenceEval ==
    /\ pc = "inference_eval"
    /\ training' = FALSE
    /\ log' = Append(log, Event("eval", 0))
    /\ pc' = "export"
    /\ UNCHANGED <<data, net, grad_enabled, caller, calls, t, locals, stdout, file,
                   model2, onnx_model, sample, session, result, passSizes, evals>>

\* variant: a trace input one pixel wider and higher than the samples
input_image_Wide == [r \in Idx(ImgSide + 1) |-> [c \in Idx(ImgSide + 1) |-> 0]]

\* input_image = torch.zeros((1,28,28))
input_image == Image(0)

\* height and width of an image (its single channel is left out)
ImageShape(img) == <<Cardinality(DOMAIN img), Cardinality(DOMAIN img[0])>>

\* the graph onnx.export writes: the parameters as named initializers and the
\* shape of the input the model was traced with
OnnxGraph(m, img) ==
    [initializers |-> state_dict(m),
     input_shape  |-> <<Cardinality(DOMAIN img), Cardinality(DOMAIN img[0])>>]

\* onnx.export(model, input_image, 'data/model.onnx')
Export ==
    /\ pc = "export"
    /\ onnx_model' = <<OnnxGraph(model2[1], input_image)>>
    /\ log' = Append(log, Event("export", 0))
    /\ pc' = "sample"
    /\ UNCHANGED <<data, net, grad_enabled, caller, calls, t, locals, stdout, file,
                   model2, training, sample, session, result, passSizes, evals>>

\* x, y = test_data[0][0], test_data[0][1]
InferenceSample ==
    /\ pc = "sample"
    /\ Len(test_data) > 0
    /\ sample' = <<test_data[1]>>
    /\ pc' = "session"
    /\ UNCHANGED <<data, net, grad_enabled, caller, calls, t, locals, stdout, file,
                   model2, training, onnx_model, session, result, log, passSizes, evals>>

\* session = onnxruntime.InferenceSession(onnx_model, None)
InferenceSession ==
    /\ pc = "session"
    /\ onnx_model # <<>>
    /\ session' = <<onnx_model[1]>>
    /\ log' = Append(log, Event("session", 0))
    /\ pc' = "run"
    /\ UNCHANGED <<data, net, grad_enabled, caller, calls, t, locals, stdout, file,
                   model2, training, onnx_model, sample, result, passSizes, evals>>

\* the network a graph computes: its initializers put back into the stages
GraphModel(g) ==
    [i \in LinearIdx |->
        [weight |-> g.initializers[<<"linear_relu_stack", i, "weight">>],
         bias   |-> g.initializers[<<"linear_relu_stack", i, "bias">>]]]

\* result = session.run(...); predicted, actual = classes[argmax], classes[y]
InferenceRun ==
    /\ pc = "run"
    /\ ImageShape(sample[1].x) = session[1].input_shape
    /\ result' = <<forward(GraphModel(session[1]), sample[1].x)>>
    /\ stdout' = Append(stdout, Line("predicted", classes[argmax(result'[1]) + 1],
                                     classes[sample[1].y + 1], 0))
    /\ log' = Append(log, Event("run", 0))
    /\ pc' = "end"
    /\ UNCHANGED <<data, net, grad_enabled, caller, calls, t, locals, file,
                   model2, training, onnx_model, sample, session, passSizes, evals>>

\* ------------------------------------------------------ harness
CallTrain ==
    /\ pc = "idle"
    /\ calls < MaxCalls
    /\ calls' = calls + 1
    /\ pc' = "train_enter"
    /\ UNCHANGED <<data, net, grad_enabled, caller, t, locals, stdout, artifacts, log,
                   passSizes, evals>>

CallTest ==
    /\ pc = "idle"
    /\ calls < MaxCalls
    /\ calls' = calls + 1
    /\ pc' = "test_enter"
    /\ UNCHANGED <<data, net, grad_enabled, caller, t, locals, stdout, artifacts, log,
                   passSizes, evals>>

\* ------------------------------------------------------ specifications
TrainLoop ==
    \/ TrainEnter \/ TrainFetch \/ TrainReturn \/ TrainForward \/ TrainLoss
    \/ TrainZeroGrad \/ TrainBackward \/ TrainStep \/ TrainReport

TestLoop ==
    \/ TestEnter \/ TestFetch \/ TestExhausted \/ TestForward \/ TestLoss
    \/ TestCorrect \/ TestNormalise \/ TestDivideByZero \/ TestPrint

Next ==
    \/ EpochsAssign \/ EpochNext \/ EpochsDone \/ TrainLoop \/ TestLoop
    \/ Save \/ InferenceConstruct \/ InferenceLoad \/ InferenceEval
    \/ Export \/ InferenceSample \/ InferenceSession \/ InferenceRun

Spec == Init /\ [][Next]_vars

\* the positions of the notebooks' statements
Positions ==
    {"top_cell", "epoch_loop", "train_enter", "train_iter", "train_forward",
     "train_loss", "train_zero_grad", "train_backward", "train_step",
     "train_report", "test_enter", "test_iter", "test_forward", "test_loss",
     "test_correct", "test_normalise", "test_print", "save", "inference",
     "inference_load", "inference_eval", "export", "sample", "session", "run",
     "idle", "end", "error"}

\* there is a statement at the current position and it can run: nothing is
\* left after the last cell or after an uncaught exception
StatementReady ==
    CASE pc \in {"end", "error", "idle"} -> FALSE
      [] pc = "train_backward" -> grad_enabled
      [] pc = "inference_load" -> file # <<>> /\ LoadAccepts(model2[1], file[1])
      [] pc = "sample" -> Len(test_data) > 0
      [] pc = "session" -> onnx_model # <<>>
      [] pc = "run" -> ImageShape(sample[1].x) = session[1].input_shape
      [] OTHER -> TRUE

\* the interpreter runs the statement at the current position and moves on
Proceeds == StatementReady /\ pc' \in Positions \ {pc}

\* the notebook run top to bottom on splits of every length that start at
\* sample 0
InitFair ==
    /\ Init
    /\ training_data \in {Split(0, n) : n \in 0..MaxTrain}
    /\ test_data \in {Split(0, n) : n \in 0..MaxTest}

\* the interpreter goes on to the next statement as long as there is one
SpecFair == InitFair /\ [][Next]_vars /\ WF_pc(Proceeds)

NextCalls == CallTrain \/ CallTest \/ TrainLoop \/ TestLoop

SpecCalls == InitCalls /\ [][NextCalls]_vars

\* one call of train_loop on a training split of more than 100 batches
InitLong ==
    /\ training_data \in {Split(first, n) : first \in 0..MaxPixel,
                                            n \in (LongTrain - 1)..LongTrain}
    /\ test_data = <<>>
    /\ batch_size \in 1..MaxBatch
    /\ epochs = MaxEpochs
    /\ model \in FreshModels
    /\ model0 = model
    /\ grad = ZeroGradBuffers
    /\ grad_enabled = TRUE
    /\ caller = "harness" /\ calls = 1 /\ pc = "train_enter"
    /\ t = 0
    /\ size = 0 /\ it = 0 /\ batch = 0
    /\ X = <<>> /\ y = <<>> /\ pred = <<>> /\ loss = 0
    /\ test_loss = Frac(0, 1) /\ correct = Frac(0, 1)
    /\ stdout = <<>>
    /\ file = <<>> /\ model2 = <<>>
    /\ training = TRUE
    /\ onnx_model = <<>> /\ sample = <<>> /\ session = <<>> /\ result = <<>>
    /\ log = <<>> /\ passSizes = <<>>
    /\ lastEval = <<>> /\ prevEval = <<>>

NextLong == TrainLoop

SpecLong == InitLong /\ [][NextLong]_vars

\* ====================================================== properties
TrainBodyPCs == {"train_forward", "train_loss", "train_zero_grad", "train_backward",
                 "train_step", "train_report"}

TestLoopPCs == {"test_iter", "test_forward", "test_loss", "test_correct",
                "test_normalise", "test_print"}

TrainOps == {"train_begin", "forward", "loss", "zero_grad", "backward", "step"}

TrainLog == SelectSeq(log, LAMBDA e : e.op \in TrainOps)

PhaseOps == <<"train_begin", "train_end", "test_begin", "test_end">>

PhaseLog == SelectSeq(log, LAMBDA e : \E n \in 1..4 : e.op = PhaseOps[n])

HasEvent(op, k) == \E n \in 1..Len(log) : log[n] = Event(op, k)

CeilDiv(a, b) == (a + b - 1) \div b

\* C1: in train_loop every batch goes through forward, loss, zero_grad,
\* backward, step in exactly this order; the forward pass of batch k+1 comes
\* directly after the step of batch k; batches are taken in loader order
\* (batch k of the enumeration is the k-th slice of the training split).
C1_TrainStepOrder ==
    /\ LET tl == TrainLog IN
       \A n \in 1..Len(tl) :
          LET e == tl[n]
              before == tl[n - 1]
          IN  /\ e.op = "forward" =>
                    /\ n > 1
                    /\ \/ before.op = "train_begin" /\ e.k = 0
                       \/ before = Event("step", e.k - 1)
              /\ e.op = "loss" => n > 1 /\ before = Event("forward", e.k)
              /\ e.op = "zero_grad" => n > 1 /\ before = Event("loss", e.k)
              /\ e.op = "backward" => n > 1 /\ before = Event("zero_grad", e.k)
              /\ e.op = "step" => n > 1 /\ before = Event("backward", e.k)
    /\ pc \in TrainBodyPCs =>
          /\ X = [n \in 1..Len(X) |-> training_data[batch * batch_size + n].x]
          /\ y = [n \in 1..Len(y) |-> training_data[batch * batch_size + n].y]
          /\ Len(X) = Len(y) /\ Len(X) >= 1

C1_Witness == HasEvent("step", 1) /\ pc = "train_report"

\* C2: the top-level loop alternates strictly train phase, evaluation phase,
\* epoch after epoch; at the end of the loop both phases have run exactly
\* `epochs` times.
C2_PhasesAlternate ==
    LET pl == PhaseLog IN
    /\ \A n \in 1..Len(pl) :
          pl[n] = Event(PhaseOps[((n - 1) % 4) + 1], (n - 1) \div 4)
    /\ Len(pl) <= 4 * epochs
    /\ pc \in {"save", "inference", "inference_load", "inference_eval", "export",
               "sample", "session", "run", "end"} =>
          Len(pl) = 4 * epochs

C2_Witness == pc = "save" /\ epochs >= 2 /\ Len(PhaseLog) = 4 * epochs

\* C3: no step of test_loop changes a model parameter or a gradient buffer,
\* nor anything but test_loop's locals, its printed output (and the
\* bookkeeping of the run).
C3_TestLoopFrame ==
    [][(pc \in TestLoopPCs \cup {"test_enter"}) =>
          (model' = model /\ grad' = grad /\ UNCHANGED <<data, artifacts, batch, loss>>)]_vars

C3_Witness == pc = "test_print" /\ grad # ZeroGradBuffers /\ HasEvent("step", 0)

\* C4: a full pass over a split of S >= 1 samples with batch size B processes
\* exactly ceil(S / B) batches; all but the last have B samples and the last
\* has S mod B samples when that is non-zero, else B.
PassShape(S) ==
    S >= 1 =>
        /\ Len(passSizes) = CeilDiv(S, batch_size)
        /\ \A n \in 1..(Len(passSizes) - 1) : passSizes[n] = batch_size
        /\ passSizes[Len(passSizes)] =
              (IF S % batch_size # 0 THEN S % batch_size ELSE batch_size)

TrainPassDone == log # <<>> /\ log[Len(log)].op = "train_end"

TestPassDone == pc \in {"test_normalise", "test_print"}

C4_BatchCount ==
    /\ TrainPassDone => PassShape(Len(training_data))
    /\ TestPassDone => PassShape(Len(test_data))

C4_Witness == TestPassDone /\ passSizes = <<2, 1>>

\* C5: the accuracy test_loop reports is the number of samples of the test
\* split whose predicted class (index of the maximal output) is the label,
\* divided by the number of samples of the split.
TrueCorrect ==
    Cardinality({n \in 1..Len(test_data) :
                    argmax(forward(model, test_data[n].x)) = test_data[n].y})

C5_Accuracy ==
    pc = "test_print" => correct = Frac(TrueCorrect, Len(test_data))

C5_Witness ==
    /\ pc = "test_print" /\ Len(passSizes) >= 2
    /\ correct.num > 0 /\ correct.num < correct.den

\* C6: the reported average loss is the mean loss per sample of the test
\* split: (sum of every sample's loss) / (number of samples).
TrueLossSum ==
    SumSeq([n \in 1..Len(test_data) |->
               SampleLoss(forward(model, test_data[n].x), test_data[n].y)])

C6_MeanLossPerSample ==
    pc = "test_print" => FracEq(test_loss, Frac(TrueLossSum, Len(test_data)))

\* C7: the accumulated correct count lies between 0 and the split size, and
\* the accuracy computed over a non-empty split lies in [0, 1].
C7_AccuracyRange ==
    /\ pc \in TestLoopPCs \ {"test_print"} =>
          correct.den = 1 /\ 0 <= correct.num /\ correct.num <= Len(test_data)
    /\ pc = "test_print" /\ Len(test_data) >= 1 =>
          correct.den > 0 /\ 0 <= correct.num /\ correct.num <= correct.den

C7_Witness == pc = "test_print" /\ Len(passSizes) >= 2 /\ correct.num = correct.den

\* C8: with a loss function that returns only non-negative values the
\* accumulated test_loss is non-negative after every batch, and so is the
\* mean loss reported at the end.
LossNonNegative ==
    \A n \in 1..Len(test_data) :
        SampleLoss(forward(model, test_data[n].x), test_data[n].y) >= 0

C8_LossNonNegative ==
    pc \in TestLoopPCs /\ LossNonNegative => test_loss.den > 0 /\ test_loss.num >= 0

C8_Witness == pc = "test_print" /\ Len(passSizes) >= 2 /\ test_loss.num > 0

\* C9: two test_loop calls in a row on the same model and split, with no
\* train_loop call in between, report identical accuracy and mean loss.
C9_EvalRepeatable ==
    prevEval # <<>> /\ lastEval # <<>> => prevEval = lastEval

C9_Witness ==
    /\ prevEval # <<>> /\ lastEval # <<>>
    /\ HasEvent("step", 0)
    /\ lastEval[1].accuracy.num > 0 /\ lastEval[1].avg_loss.num > 0

\* C10: after saving the state dict, constructing a fresh NeuralNetwork and
\* loading the saved parameters into it, every parameter of the reloaded
\* model equals the original's and both give the same output on every input.
C10_RoundTrip ==
    pc = "inference_eval" =>
        /\ model2[1] = model
        /\ state_dict(model2[1]) = file[1]
        /\ \A img \in {s.x : s \in Samples} : forward(model2[1], img) = forward(model, img)

C10_Witness == pc = "inference_eval" /\ model \notin FreshModels /\ HasEvent("step", 0)


\* C13: gradient tracking is off for every forward pass and loss computation
\* of test_loop and for nothing else: it is off exactly while test_loop is
\* inside its "with torch.no_grad()" block, and on whenever train_loop
\* computes an output, a loss or a gradient.
NoGradPCs == {"test_iter", "test_forward", "test_loss", "test_correct"}

C13_NoGradScope ==
    /\ grad_enabled <=> pc \notin NoGradPCs
    /\ pc \in TrainBodyPCs => grad_enabled

C13_Witness == pc = "train_backward" /\ HasEvent("test_end", 0) /\ grad_enabled

\* C19: no step changes a dataset split: the training split and the test
\* split keep their ordered (input, label) pairs and their size.
C19_SplitsReadOnly ==
    [][training_data' = training_data /\ test_data' = test_data]_vars

C19_Witness ==
    /\ pc = "save" /\ HasEvent("step", 1)
    /\ Len(training_data) = MaxTrain /\ Len(test_data) = MaxTest

\* C20: when optimizer.step() runs for a batch, every gradient buffer holds
\* exactly the gradient of that batch's loss, with no contribution of an
\* earlier batch or epoch.
C20_NoGradAccumulation ==
    pc = "train_step" => grad = BatchGrad(model, X, y)

C20_Witness ==
    /\ pc = "train_step" /\ HasEvent("step", 0) /\ HasEvent("test_end", 0)
    /\ batch >= 1 /\ grad # ZeroGradBuffers

\* C14: the parameter file is written exactly once per run and only after the
\* evaluation phase of the last epoch; it holds the parameters of the model
\* after the last training step, which are the parameters the last evaluation
\* phase observed; no optimizer step follows the write.
SaveEvents == SelectSeq(log, LAMBDA e : e.op = "save")

C14_SavedOnceAfterTraining ==
    /\ Len(SaveEvents) = (IF file = <<>> THEN 0 ELSE 1)
    /\ file # <<>> =>
          /\ t = epochs
          /\ Len(PhaseLog) = 4 * epochs
          /\ \E n \in 1..Len(log) :
                /\ log[n].op = "save"
                /\ \A j \in 1..Len(log) :
                      log[j].op \in {"step", "test_end", "test_forward"} => j < n
          /\ file[1] = state_dict(model)
          /\ lastEval # <<>>
          /\ file[1] = state_dict(lastEval[1].params)

C14_Witness ==
    /\ pc = "inference_load"
    /\ file # <<>>
    /\ HasEvent("step", 1)
    /\ \A m \in FreshModels : file[1] # state_dict(m)

\* C15: a failure raised inside train_loop or test_loop is not caught and not
\* retried: the step that raises ends the run, nothing executes after it, and
\* in the state it leaves 'Done!' was not printed, the parameter file was not
\* written and the epochs that were still due have not started.
DonePrinted == \E n \in 1..Len(stdout) : stdout[n].kind = "done"

StageChain(S, pixels, nclasses) ==
    /\ S[0].in_features = pixels
    /\ S[0].out_features = S[2].in_features
    /\ S[2].out_features = S[4].in_features
    /\ S[4].out_features = nclasses

ModelStages(m) ==
    [i \in LinearIdx |->
        [in_features |-> Cardinality(DOMAIN m[i].weight[0]),
         out_features |-> Cardinality(DOMAIN m[i].bias)]]

C16_StageChain ==
    /\ \A S \in {Stack4Model, Stack6Optimization, Stack7Inference} :
          /\ StageChain(S, SampleShape[1] * SampleShape[2] * SampleShape[3], Len(classes))
          /\ S[0] = [in_features |-> 784, out_features |-> 512]
          /\ S[2] = [in_features |-> 512, out_features |-> 512]
          /\ S[4] = [in_features |-> 512, out_features |-> 10]
    /\ StageChain(ModelStages(model), ImgSide * ImgSide, NumClasses)
    /\ \A i \in LinearIdx : DOMAIN model[i].weight = DOMAIN model[i].bias
    /\ \A n \in 1..Len(pred) : DOMAIN pred[n] = Idx(NumClasses)

C16_Witness ==
    /\ pc = "train_loss"
    /\ Len(pred) = MaxBatch
    /\ HasEvent("step", 0)
    /\ model \notin FreshModels

\* C17: the value forward returns as logits is the raw output of the last
\* linear layer (one real value per class, negative as well as positive), and
\* that raw value is what the loss function and argmax receive.
LastLinearOutput(m, img) ==
    Linear(m[4], ReLU(Linear(m[2], ReLU(Linear(m[0], Flatten(img))))))

C17_LogitsAreRaw ==
    pc \in {"train_loss", "test_loss", "test_correct"} =>
        \A n \in 1..Len(pred) : pred[n] = LastLinearOutput(model, X[n])

\* C18: the inference notebook runs these steps in this order, each once:
\* construct the network, load the saved parameters, model.eval(), export to
\* ONNX, create the session, run it. So the model is in evaluation mode at
\* every export and run, and the exported graph holds the trained parameters
\* (those of the file), not those the constructor drew.
InferenceOps == <<"construct", "load", "eval", "export", "session", "run">>

InferenceLog == SelectSeq(log, LAMBDA e : \E n \in 1..6 : e.op = InferenceOps[n])

C18_InferenceOrder ==
    /\ LET il == InferenceLog IN
          /\ Len(il) <= 6
          /\ \A n \in 1..Len(il) : il[n].op = InferenceOps[n]
          /\ pc = "end" => Len(il) = 6
          /\ Len(il) > 0 => file # <<>>
    /\ onnx_model # <<>> =>
          /\ ~training
          /\ onnx_model[1].initializers = file[1]
          /\ onnx_model[1].initializers = state_dict(model)
    /\ session # <<>> => session[1] = onnx_model[1]
    /\ result # <<>> =>
          /\ ~training
          /\ result[1] = forward(model, test_data[1].x)

C18_Witness ==
    /\ pc = "end"
    /\ result # <<>>
    /\ HasEvent("step", 1)
    /\ \A m \in FreshModels : onnx_model[1].initializers # state_dict(m)

\* C11: in one pass of train_loop a progress report is emitted for exactly
\* the batches whose zero-based index is a multiple of 100, so a pass of N
\* batches emits ceil(N / 100) reports; the report of batch k comes directly
\* after the optimizer step of batch k and before the forward pass of batch
\* k + 1.
ReportLog == SelectSeq(log, LAMBDA e : e.op = "report")

LossLines == SelectSeq(stdout, LAMBDA l : l.kind = "loss")

BatchesDone == IF pc \in TrainBodyPCs THEN it - 1 ELSE it

C11_ReportCadence ==
    /\ LET rl == ReportLog IN
          /\ Len(rl) = CeilDiv(BatchesDone, 100)
          /\ Len(LossLines) = Len(rl)
          /\ \A n \in 1..Len(rl) : rl[n].k = 100 * (n - 1)
    /\ \A n \in 1..Len(log) :
          log[n].op = "report" =>
              /\ n > 1 /\ log[n - 1] = Event("step", log[n].k)
              /\ n < Len(log) =>
                    log[n + 1] \in {Event("forward", log[n].k + 1), Event("train_end", t)}
    /\ pc = "idle" =>
          Len(ReportLog) = CeilDiv(CeilDiv(Len(training_data), batch_size), 100)

C11_Witness ==
    /\ pc = "idle"
    /\ Len(ReportLog) = 3
    /\ HasEvent("report", 200)
    /\ Len(passSizes) = 201

\* C12: the sample count of every progress report (batch index times the
\* number of samples of the current batch) is the number of samples of the
\* split that the batches before the reporting batch held, also when the
\* reporting batch is a shorter final batch.
C12_ReportedCount ==
    (pc = "train_iter" /\ it > 0 /\ batch % 100 = 0) =>
        LossLines[Len(LossLines)].b = SumSeq(SubSeq(passSizes, 1, batch))

\* C23: the three hyperparameters are set once and used unchanged: the loop
\* runs the number of epochs the hyperparameter cell assigned, the loaders use
\* the batch_size of that cell, the optimizer uses learning_rate, and no step
\* of the run assigns epochs or batch_size again.
C23_HyperparametersFixed ==
    [][ /\ epochs' = epochs
        /\ batch_size' = batch_size
        /\ LoaderBatchSize = HyperBatchSize
        /\ TopLevelEpochs = HyperEpochs ]_vars

\* C21: one parameter update per training batch and none during evaluation:
\* while the evaluation phase of epoch t (counted from 1) runs, and when it
\* has ended, the model has received t * ceil(S_train / B) updates and is the
\* model the evaluation observed; after the run the total is
\* E * ceil(S_train / B).
StepCount == Len(SelectSeq(log, LAMBDA e : e.op = "step"))

BatchesPerPass == CeilDiv(Len(training_data), batch_size)

AfterRunPCs == {"save", "inference", "inference_load", "inference_eval", "export",
                "sample", "session", "run", "end"}

C21_OneUpdatePerBatch ==
    /\ pc \in TestLoopPCs \cup {"test_enter"} => StepCount = (t + 1) * BatchesPerPass
    /\ pc = "epoch_loop" =>
          /\ StepCount = t * BatchesPerPass
          /\ t >= 1 => lastEval # <<>> /\ lastEval[1].params = model
    /\ pc \in AfterRunPCs =>
          /\ StepCount = epochs * BatchesPerPass
          /\ lastEval[1].params = model

C21_Witness ==
    /\ pc = "save"
    /\ BatchesPerPass = 2
    /\ StepCount = 2 * epochs
    /\ epochs >= 2

\* C22: the batches of a pass are the contiguous in-order slices of the
\* split: batch k holds samples k*B .. min((k+1)*B, S)-1, so the batches are
\* disjoint, their concatenation is the split in its order, and every pass of
\* every epoch takes the same slices in the same order.
Batches(d, bs) == [k \in 1..CeilDiv(Len(d), bs) |-> BatchOf(d, bs, k - 1)]

RECURSIVE Concat(_)
Concat(ss) == IF ss = <<>> THEN <<>> ELSE Head(ss) \o Concat(Tail(ss))

Partitioned(d, bs) ==
    /\ Concat(Batches(d, bs)) = d
    /\ \A k \in 0..(Len(d) + 1) : HasBatch(d, bs, k) <=> k < CeilDiv(Len(d), bs)
    /\ \A k \in 1..Len(Batches(d, bs)) :
          /\ Len(Batches(d, bs)[k]) \in 1..bs
          /\ \A n \in 1..Len(Batches(d, bs)[k]) :
                Batches(d, bs)[k][n] = d[(k - 1) * bs + n]

C22_BatchesPartition ==
    /\ Partitioned(training_data, batch_size)
    /\ Partitioned(test_data, batch_size)
    /\ pc \in TrainBodyPCs =>
          /\ X = Inputs(Batches(training_data, batch_size)[batch + 1])
          /\ y = Labels(Batches(training_data, batch_size)[batch + 1])
          /\ it = batch + 1
    /\ pc \in {"test_forward", "test_loss", "test_correct"} =>
          /\ X = Inputs(Batches(test_data, batch_size)[it])
          /\ y = Labels(Batches(test_data, batch_size)[it])

C22_Witness ==
    /\ pc = "test_forward"
    /\ t = 1
    /\ batch_size = 2
    /\ it = 2
    /\ Len(X) = 1
    /\ X[1] = test_data[3].x

\* C24: the file holds parameter values only, keyed by stage name, and fits
\* the model it is loaded into: the training notebook's network and the
\* inference notebook's network have the same three weight/bias pairs
\* (784 -> 512, 512 -> 512, 512 -> 10), so load_state_dict meets no missing
\* key, no unexpected key and no parameter of another shape.
C24_FileMatchesStructure ==
    /\ Stack6Optimization = Stack7Inference
    /\ DOMAIN Stack7Inference = LinearIdx
    /\ Stack7Inference[0] = [in_features |-> 784, out_features |-> 512]
    /\ Stack7Inference[2] = [in_features |-> 512, out_features |-> 512]
    /\ Stack7Inference[4] = [in_features |-> 512, out_features |-> 10]
    /\ file # <<>> =>
          /\ DOMAIN file[1] = {<<"linear_relu_stack", i, n>> : i \in {0, 2, 4},
                                                               n \in {"weight", "bias"}}
          /\ \A k \in DOMAIN file[1] : file[1][k] = model[k[2]][k[3]]
          /\ \A m \in FreshModels :
                /\ MissingKeys(m, file[1]) = {}
                /\ UnexpectedKeys(m, file[1]) = {}
                /\ LoadAccepts(m, file[1])
    /\ pc = "inference_load" => LoadAccepts(model2[1], file[1])

C24_Witness ==
    /\ pc = "inference_eval"
    /\ HasEvent("load", 0)
    /\ model2[1] = model
    /\ model2[1] \notin FreshModels

\* C25: the input the model is traced with at export has the expected input
\* shape, (1, 28, 28) with 1 * 28 * 28 = 784 values, the input size of the
\* first stage; the test sample given to session.run has the shape the graph
\* was traced with.
C25_InputShapes ==
    /\ SampleShape = <<1, 28, 28>>
    /\ SampleShape[1] * SampleShape[2] * SampleShape[3] = Stack7Inference[0].in_features
    /\ onnx_model # <<>> =>
          /\ onnx_model[1].input_shape = <<ImgSide, ImgSide>>
          /\ onnx_model[1].input_shape[1] * onnx_model[1].input_shape[2]
                = ModelStages(model2[1])[0].in_features
    /\ (sample # <<>> /\ onnx_model # <<>>) =>
          ImageShape(sample[1].x) = onnx_model[1].input_shape
    /\ result # <<>> =>
          /\ ImageShape(sample[1].x) = session[1].input_shape
          /\ DOMAIN Flatten(sample[1].x) = Idx(in_features(0))

C25_Witness ==
    /\ pc = "end"
    /\ result # <<>>
    /\ sample[1].x # input_image
    /\ ImageShape(sample[1].x) = ImageShape(input_image)

\* C26: the loss a progress report prints for batch k is the loss of batch
\* k's forward pass, computed with the parameters as they were before batch
\* k's update: when optimizer.step() runs, `loss` is the loss of the model
\* not yet updated, the step leaves `loss` and the batch alone, and the report
\* that follows prints this `loss`.
C26_ReportedLossIsPreUpdate ==
    [][ /\ (pc = "train_step") =>
              (/\ loss = CrossEntropyLoss(ModelCall(model, X), y)
               /\ loss' = loss /\ X' = X /\ y' = y
               /\ pc' = "train_report")
        /\ (pc = "train_report" /\ batch % 100 = 0) =>
              (/\ Len(stdout') = Len(stdout) + 1
               /\ stdout'[Len(stdout')].kind = "loss"
               /\ stdout'[Len(stdout')].a = loss) ]_vars

C26_Witness ==
    /\ pc = "train_iter"
    /\ it >= 1
    /\ stdout # <<>>
    /\ stdout[Len(stdout)].kind = "loss"
    /\ stdout[Len(stdout)].a = loss
    /\ loss # CrossEntropyLoss(ModelCall(model, X), y)

\* C27: on an empty test split test_loop processes no batch and then fails
\* with the division by zero of the normalisation instead of reporting a
\* result, and the failure leaves the model as it was; on an empty training
\* split train_loop updates nothing and reports nothing.
TestLines == SelectSeq(stdout, LAMBDA l : l.kind = "test")

C27_EmptySplits ==
    [][ /\ (pc = "test_iter" /\ Len(test_data) = 0) =>
              (pc' = "test_normalise" /\ passSizes' = <<>> /\ model' = model)
        /\ (pc = "test_normalise" /\ size = 0) =>
              (/\ pc' = "error"
               /\ model' = model /\ grad' = grad
               /\ stdout' = stdout /\ lastEval' = lastEval)
        /\ Len(test_data) = 0 =>
              (/\ Len(TestLines') = 0
               /\ \A n \in 1..Len(log') : log'[n].op \notin {"test_forward", "test_end"}
               /\ pc' # "test_print")
        /\ (pc = "train_iter" /\ Len(training_data) = 0) =>
              (pc' \in {"idle", "test_enter"} /\ passSizes' = <<>>)
        /\ Len(training_data) = 0 =>
              (/\ model' = model /\ grad' = grad
               /\ Len(LossLines') = 0
               /\ \A n \in 1..Len(log') : log'[n].op \notin {"forward", "step", "report"}) ]_vars

C27_Witness ==
    /\ pc = "error"
    /\ Len(training_data) = 0 /\ Len(test_data) = 0
    /\ HasEvent("train_end", 0) /\ HasEvent("test_begin", 0)
    /\ model \in FreshModels
    /\ stdout = <<>>

\* C28: in the inference notebook the predicted class index (argmax over the
\* outputs of the one sample) and the true label are valid indices of the
\* classes list: the list has 10 entries, one per output of the last stage,
\* and both indices are below the number of outputs, so classes[...] cannot
\* go out of range.
C28_ClassIndexInRange ==
    /\ Len(classes) = 10
    /\ Stack7Inference[4].out_features = Len(classes)
    /\ NumClasses <= Len(classes)
    /\ sample # <<>> => sample[1].y \in Idx(NumClasses)
    /\ result # <<>> =>
          /\ DOMAIN result[1] = Idx(NumClasses)
          /\ argmax(result[1]) \in Idx(NumClasses)
          /\ argmax(result[1]) + 1 \in DOMAIN classes
          /\ sample[1].y + 1 \in DOMAIN classes
          /\ stdout[Len(stdout)] =
                Line("predicted", classes[argmax(result[1]) + 1], classes[sample[1].y + 1], 0)

C28_Witness ==
    /\ pc = "end"
    /\ result # <<>>
    /\ argmax(result[1]) = NumClasses - 1
    /\ sample[1].y = 0

\* C29: with finite splits and a finite epoch count a run in which no step
\* fails terminates: every train_loop and test_loop pass ends after
\* ceil(S / B) batches, the epoch loop ends after `epochs` epochs, and 'Done!'
\* is eventually printed, once, after the last evaluation phase.
DoneCount == Len(SelectSeq(stdout, LAMBDA l : l.kind = "done"))

C29_Terminates ==
    /\ [](/\ DoneCount <= 1
          /\ DoneCount = 1 => (t = epochs /\ Len(PhaseLog) = 4 * epochs))
    /\ (pc = "train_enter") ~>
          (pc = "test_enter" /\ Len(passSizes) = CeilDiv(Len(training_data), batch_size))
    /\ (pc = "test_enter" /\ Len(test_data) > 0) ~>
          (pc = "test_print" /\ Len(passSizes) = CeilDiv(Len(test_data), batch_size))
    /\ (pc = "top_cell" /\ Len(test_data) > 0) ~> (DoneCount = 1 /\ pc = "end")

C29_Witness ==
    /\ pc = "end"
    /\ DoneCount = 1
    /\ t = epochs
    /\ Len(training_data) = MaxTrain /\ Len(test_data) = MaxTest

\* C30: the driver is deterministic: the batch fetched at every position, the
\* parameters at every batch and at the end of every epoch, everything printed
\* (progress reports, accuracy, mean loss) and the evaluation results are
\* functions of the initial parameters, the splits, the batch size and the
\* number of epochs, so two runs from the same inputs agree on all of them.
\* F applied to the value of v, with v evaluated once
Then(v, F(_)) == CHOOSE r \in {F(x) : x \in {v}} : TRUE

\* one iteration of train_loop's body on batch b
TrainBatch(m, b) ==
    Then(BatchGrad(m, Inputs(b), Labels(b)), LAMBDA g :
    Then(Accumulate(ZeroGradBuffers, g), LAMBDA buf :
    SGDStep(m, buf)))

\* the parameters after the first k batches of one pass of train_loop over d
RECURSIVE TrainPass(_, _, _, _)
TrainPass(m, d, bs, k) ==
    IF k = 0 THEN m
    ELSE Then(TrainPass(m, d, bs, k - 1), LAMBDA p :
         Then(BatchOf(d, bs, k - 1), LAMBDA b :
         TrainBatch(p, b)))

\* the parameters after n epochs
RECURSIVE RunEpochs(_, _, _, _)
RunEpochs(m, d, bs, n) ==
    IF n = 0 THEN m
    ELSE Then(RunEpochs(m, d, bs, n - 1), LAMBDA p :
         TrainPass(p, d, bs, CeilDiv(Len(d), bs)))

\* the progress reports of one pass of train_loop that starts from m
PassReports(m, d, bs) ==
    [n \in 1..CeilDiv(CeilDiv(Len(d), bs), ReportEvery) |->
        Then(ReportEvery * (n - 1), LAMBDA k :
        Then(BatchOf(d, bs, k), LAMBDA b :
        Then(TrainPass(m, d, bs, k), LAMBDA p :
        Then(ModelCall(p, Inputs(b)), LAMBDA out :
        Line("loss", CrossEntropyLoss(out, Labels(b)), k * Len(b), Len(d))))))]

\* the accumulators of test_loop after the first k batches
RECURSIVE TestSums(_, _, _, _)
TestSums(m, d, bs, k) ==
    IF k = 0 THEN [test_loss |-> Frac(0, 1), correct |-> Frac(0, 1)]
    ELSE Then(TestSums(m, d, bs, k - 1), LAMBDA acc :
         Then(BatchOf(d, bs, k - 1), LAMBDA b :
         Then(ModelCall(m, Inputs(b)), LAMBDA out :
         [test_loss |-> FracAdd(acc.test_loss,
                                Frac(CrossEntropyLoss(out, Labels(b)), LossScale)),
          correct   |-> FracAdd(acc.correct, Frac(CorrectCount(out, Labels(b)), 1))])))

\* what one call of test_loop on a non-empty split computes
EvalPass(m, d, bs) ==
    Then(TestSums(m, d, bs, CeilDiv(Len(d), bs)), LAMBDA acc :
    [accuracy |-> FracDiv(acc.correct, Len(d)),
     avg_loss |-> FracDiv(acc.test_loss, Len(d)),
     params   |-> m])

\* everything printed by the first n epochs
RECURSIVE EpochsOutput(_, _, _, _, _)
EpochsOutput(m, d, td, bs, n) ==
    IF n = 0 THEN <<>>
    ELSE Then(RunEpochs(m, d, bs, n - 1), LAMBDA before :
         Then(TrainPass(before, d, bs, CeilDiv(Len(d), bs)), LAMBDA after :
         Then(EvalPass(after, td, bs), LAMBDA ev :
         EpochsOutput(m, d, td, bs, n - 1)
             \o <<Line("epoch", n, 0, 0)>>
             \o PassReports(before, d, bs)
             \o <<Line("test", Frac(100 * ev.accuracy.num, ev.accuracy.den),
                        ev.avg_loss, 0)>>)))

C30_Deterministic ==
    /\ pc = "train_forward" =>
          /\ X = Inputs(BatchOf(training_data, batch_size, batch))
          /\ y = Labels(BatchOf(training_data, batch_size, batch))
          /\ model = TrainPass(RunEpochs(model0, training_data, batch_size, t),
                               training_data, batch_size, batch)
    /\ pc = "epoch_loop" =>
          /\ model = RunEpochs(model0, training_data, batch_size, t)
          /\ stdout = EpochsOutput(model0, training_data, test_data, batch_size, t)
          /\ t > 0 => lastEval = <<EvalPass(model, test_data, batch_size)>>

C30_Witness ==
    /\ pc = "epoch_loop" /\ t = epochs /\ t >= 2
    /\ Len(training_data) = MaxTrain /\ batch_size < MaxTrain
    /\ Len(test_data) = MaxTest
    /\ model # model0
    /\ model # RunEpochs(model0, training_data, batch_size, 1)

====
